---------------------------- MODULE Spec2Model ----------------------------
(***************************************************************************)
(* State-machine models of the SPARE repository's scripts and layer:       *)
(*   - export_tsui            (src/gen_tsui_c5.py)                         *)
(*   - downloadDrugWebId,                                                  *)
(*     parsex, getInteractions (src/postProcessing/drugsComMatching.py)    *)
(*   - HyperConv              (src/models/hyperconv.py)                    *)
(* Each routine has its own specification (SpecTsui, SpecDownload, ...);   *)
(* the variables of the routines that are not running stay at their idle   *)
(* values.                                                                 *)
(***************************************************************************)
EXTENDS Integers, Sequences, FiniteSets, TLC

VARIABLES
    \* ---- export_tsui
    tsui,          \* data lines of TSUI_ML.txt after the header: <<drug1, drug2, se>>
    dname2code,    \* load_drug_bank(): drug name -> code
    lineNo,        \* index of the next data line fin.readline() returns
    p_drugpair,    \* key of the group being collected
    c_ses,         \* side effects collected for the group
    se,            \* the local `se` (also the loop variable of the write loops)
    drug1, drug2,  \* the locals bound by the last line read
    fout,          \* text written to TSUI_C5.txt
    ts_pc          \* "idle" | "loop" | "done" | "error"

VARIABLES
    \* ---- getInteractions
    predictions,      \* lines of predictionPath, each split on ","
    currentRe,        \* second load of pOut (line 177), never updated
    dDrugPairToRe,    \* responses accumulated, keyed "d1,d2"
    pOut,             \* the mapping stored in the file pOut
    gi_i,             \* index of the next prediction line
    gi_log,           \* what each processed line did: "skipped" | "recorded" | "raised"
    gi_finalSaves,    \* executions of the save after the loop (line 222)
    gi_pc             \* "idle" | "loop" | "done"

VARIABLES
    \* ---- downloadDrugWebId
    drugList,         \* loadDrugList()
    dl_prior,         \* the mapping loaded from RAW_DRUG_TEXT at the start
    dDrugName2Re,     \* drug name -> raw response
    rawDrugText,      \* the mapping stored in the file RAW_DRUG_TEXT
    dl_i,             \* index of the next drug of drugList
    fetched,          \* the names requested from drugs.com, in order
    dl_pc             \* "idle" | "loop" | "done" | "raised"

VARIABLES
    \* ---- parsex
    px_d,             \* the raw responses of the loaded dict, in iteration order
    px_i,             \* index of the next entry
    px_log,           \* per processed entry: rex and whether the try block raised
    px_fout,          \* text written to pout
    px_pc             \* "idle" | "loop" | "done" | "raised"

VARIABLES
    \* ---- HyperConv
    edge_index,        \* <<sources, targets>>: edge e goes sources[e] -> targets[e]
    edge_types,        \* the type of each edge
    skip_last_weight, concat, bias, normalize,    \* constructor flags
    x_out,             \* the rows of __collect__'s x_out, one per edge
    hc_i,              \* the loop variable i of __collect__
    hc_writes,         \* per row of x_out: the transforms that assigned it, in order
    hc_msg,            \* what message() returned
    aggr_out,          \* what aggregate() returned
    hc_out,            \* what forward() returns
    hc_pc              \* "idle" | "collect" | "message" | "update" | "done" | "error"

tsVars == <<tsui, dname2code, lineNo, p_drugpair, c_ses, se, drug1, drug2, fout, ts_pc>>
giVars == <<predictions, currentRe, dDrugPairToRe, pOut, gi_i, gi_log, gi_finalSaves, gi_pc>>

dlVars == <<drugList, dl_prior, dDrugName2Re, rawDrugText, dl_i, fetched, dl_pc>>

pxVars == <<px_d, px_i, px_log, px_fout, px_pc>>

hcVars == <<edge_index, edge_types, skip_last_weight, concat, bias, normalize,
           x_out, hc_i, hc_writes, hc_msg, aggr_out, hc_out, hc_pc>>

vars == <<tsVars, giVars, dlVars, pxVars, hcVars>>

(***************************************************************************)
(* Generic helpers                                                         *)
(***************************************************************************)
\* All sequences over S of length 0..n.
SeqsUpTo(S, n) == UNION {[1..k -> S] : k \in 0..n}

\* Python's sep.join(xs) on a sequence of strings.
RECURSIVE Join(_, _)
Join(xs, sep) ==
    IF Len(xs) = 0 THEN ""
    ELSE IF Len(xs) = 1 THEN xs[1]
    ELSE xs[1] \o sep \o Join(Tail(xs), sep)

(***************************************************************************)
(* export_tsui (src/gen_tsui_c5.py)                                        *)
(***************************************************************************)
MaxLines == 3

\* Drug names; "a_a" makes the "%s_%s" key of two different pairs coincide.
DrugNames == {"a", "a_a"}
SideEffects == {"s1", "s2"}

\* Unbound local (before the first data line is read).
Unbound == "<unbound>"
\* The default -1 handed to get_dict: an int, which no code string equals.
NoCode == "<-1>"

\* parts[4] of the drug bank line of a name.
CodeOf(name) == "C" \o name

\* get_dict(d, k, default)
get_dict(d, k, default) == IF k \in DOMAIN d THEN d[k] ELSE default

\* "%s_%s" % (drug1, drug2)
PairKey(d1, d2) == d1 \o "_" \o d2

\* The writes of lines 35-41 / 48-56 for locals d1, d2 and the list ses:
\* the "d1|d2|c1|c2|" prefix only when both codes are known, then the list.
WriteGroup(d1, d2, ses) ==
    LET c1 == get_dict(dname2code, d1, NoCode)
        c2 == get_dict(dname2code, d2, NoCode)
        prefix == IF c1 # NoCode /\ c2 # NoCode
                  THEN d1 \o "|" \o d2 \o "|" \o c1 \o "|" \o c2 \o "|"
                  ELSE ""
    IN prefix \o Join(ses, ",") \o "\n"

\* The value of `se` after `for se in c_ses[:-1]`: the loop rebinds it when
\* c_ses[:-1] is not empty.
SeAfterWriteLoop(s, ses) == IF Len(ses) >= 2 THEN ses[Len(ses) - 1] ELSE s

TsuiIdle ==
    /\ tsui = <<>>
    /\ dname2code = <<>>
    /\ lineNo = 0
    /\ p_drugpair = ""
    /\ c_ses = <<>>
    /\ se = Unbound
    /\ drug1 = Unbound
    /\ drug2 = Unbound
    /\ fout = ""
    /\ ts_pc = "idle"

TsuiInit ==
    /\ tsui \in SeqsUpTo(DrugNames \X DrugNames \X SideEffects, MaxLines)
    /\ \E known \in SUBSET DrugNames : dname2code = [n \in known |-> CodeOf(n)]
    /\ lineNo = 1
    /\ p_drugpair = ""
    /\ c_ses = <<>>
    /\ se = Unbound
    /\ drug1 = Unbound
    /\ drug2 = Unbound
    /\ fout = ""
    /\ ts_pc = "loop"

\* One iteration of the while loop on a data line (lines 26-45).
ExportReadLine ==
    /\ ts_pc = "loop"
    /\ lineNo <= Len(tsui)
    /\ LET parts == tsui[lineNo]
           d_pair == PairKey(parts[1], parts[2])
           changed == d_pair # p_drugpair
           flush == changed /\ Len(c_ses) # 0
           se1 == IF flush THEN SeAfterWriteLoop(parts[3], c_ses) ELSE parts[3]
       IN /\ drug1' = parts[1]
          /\ drug2' = parts[2]
          /\ fout' = IF flush THEN fout \o WriteGroup(parts[1], parts[2], c_ses) ELSE fout
          /\ p_drugpair' = IF changed THEN d_pair ELSE p_drugpair
          /\ se' = se1
          /\ c_ses' = Append(IF changed THEN <<>> ELSE c_ses, se1)
    /\ lineNo' = lineNo + 1
    /\ UNCHANGED <<tsui, dname2code, ts_pc>>
    /\ UNCHANGED <<giVars, dlVars, pxVars, hcVars>>

\* readline() returns "": the "Write last" tail (lines 47-57).
ExportWriteLast ==
    /\ ts_pc = "loop"
    /\ lineNo > Len(tsui)
    /\ IF drug1 = Unbound
       THEN \* no data line: drug1 is unbound at line 48 (NameError)
            /\ ts_pc' = "error"
            /\ UNCHANGED <<fout, se>>
       ELSE /\ fout' = fout \o WriteGroup(drug1, drug2, c_ses)
            /\ se' = SeAfterWriteLoop(se, c_ses)
            /\ ts_pc' = "done"
    /\ UNCHANGED <<tsui, dname2code, lineNo, p_drugpair, c_ses, drug1, drug2>>
    /\ UNCHANGED <<giVars, dlVars, pxVars, hcVars>>

(***************************************************************************)
(* getInteractions (src/postProcessing/drugsComMatching.py)                *)
(***************************************************************************)
MaxPred == 3

\* len(dDrugPairToRe) % 10 == 0 (lines 82 and 215)
SaveEvery == 10

\* Fields of a prediction line; "z" has no drugs.com id.
PredFields == {"a", "B", "z"}

\* A prediction line split on ",": one field only is a line without a comma.
PredLines == {<<"x">>} \cup (PredFields \X PredFields)

\* str.lower() on the fields used.
Lower(s) == IF s = "B" THEN "b" ELSE s

\* Python's order on the lower-cased fields.
Rank(s) == CASE s = "a" -> 1 [] s = "b" -> 2 [] s = "x" -> 3 [] OTHER -> 4

\* srt(v1, v2) (lines 184-187)
srt(v1, v2) == IF Rank(v1) > Rank(v2) THEN <<v2, v1>> ELSE <<v1, v2>>

\* The mapping read from drugWebIdPath (lines 167-174).
dDrugName2WebId == ("a" :> "1-2") @@ ("b" :> "3-4")
validDrugs == DOMAIN dDrugName2WebId

\* What browser.get / find_elements(...)[0] / get_attribute do for one page.
BrowserOutcomes == {"ok", "get_raises", "no_body"}

\* n keys of earlier runs that are no pair of this prediction file.
Fillers(n) == {"f" \o ToString(i) : i \in 1..n}

\* utils.load_obj(pOut): the stored mapping (the empty one when there is none).
StoredMappings ==
    {[k \in ks |-> "old"] :
        ks \in {Fillers(n) \cup extra :
                  n \in {0, SaveEvery - 2, SaveEvery - 1}, extra \in {{}, {"a,b"}}}}

\* dDrugPairToRe[p] = html (line 213)
Record(d, p, html) == (p :> html) @@ d

\* The periodic save (lines 215-216): the file after the mapping became d.
PeriodicSave(file, d) == IF Cardinality(DOMAIN d) % SaveEvery = 0 THEN d ELSE file

\* Mutant of AfterException: `break` for `continue`.
AfterExceptionBreak(i) == Len(predictions) + 1

\* `except Exception: continue` (lines 218-220): the index of the line the
\* loop goes on with.
AfterException(i) == i + 1

GiIdle ==
    /\ predictions = <<>>
    /\ currentRe = <<>>
    /\ dDrugPairToRe = <<>>
    /\ pOut = <<>>
    /\ gi_i = 0
    /\ gi_log = <<>>
    /\ gi_finalSaves = 0
    /\ gi_pc = "idle"

GiInit ==
    /\ predictions \in SeqsUpTo(PredLines, MaxPred)
    /\ pOut \in StoredMappings
    /\ dDrugPairToRe = pOut
    /\ currentRe = pOut
    /\ gi_i = 1
    /\ gi_log = <<>>
    /\ gi_finalSaves = 0
    /\ gi_pc = "loop"

\* The line raised inside the try: nothing recorded, the handler continues.
GiRaise ==
    /\ gi_i' = AfterException(gi_i)
    /\ gi_log' = Append(gi_log, "raised")
    /\ UNCHANGED <<dDrugPairToRe, pOut>>

\* `continue` at line 201 or 204.
GiSkip ==
    /\ gi_i' = gi_i + 1
    /\ gi_log' = Append(gi_log, "skipped")
    /\ UNCHANGED <<dDrugPairToRe, pOut>>

\* Lines 206-217 without a failure.
GiRecord(p, html) ==
    /\ gi_i' = gi_i + 1
    /\ gi_log' = Append(gi_log, "recorded")
    /\ dDrugPairToRe' = Record(dDrugPairToRe, p, html)
    /\ pOut' = PeriodicSave(pOut, Record(dDrugPairToRe, p, html))

\* One iteration of the loop over the prediction lines (lines 192-220).
GetInteractionsLine ==
    /\ gi_pc = "loop"
    /\ gi_i <= Len(predictions)
    /\ LET parts == predictions[gi_i]
       IN IF Len(parts) < 2
          THEN GiRaise    \* parts[1]: IndexError
          ELSE LET s == srt(Lower(parts[1]), Lower(parts[2]))
                   p == s[1] \o "," \o s[2]
               IN IF s[1] \notin validDrugs \/ s[2] \notin validDrugs
                  THEN GiSkip
                  ELSE IF p \in DOMAIN currentRe
                  THEN GiSkip
                  ELSE \E outcome \in BrowserOutcomes :
                          IF outcome = "ok" THEN GiRecord(p, "html") ELSE GiRaise
    /\ UNCHANGED <<predictions, currentRe, gi_finalSaves, gi_pc>>
    /\ UNCHANGED <<tsVars, dlVars, pxVars, hcVars>>

\* After the last line: utils.save_obj(dDrugPairToRe, pOut) (line 222).
GetInteractionsSave ==
    /\ gi_pc = "loop"
    /\ gi_i > Len(predictions)
    /\ pOut' = dDrugPairToRe
    /\ gi_finalSaves' = gi_finalSaves + 1
    /\ gi_pc' = "done"
    /\ UNCHANGED <<predictions, currentRe, dDrugPairToRe, gi_i, gi_log>>
    /\ UNCHANGED <<tsVars, dlVars, pxVars, hcVars>>

(***************************************************************************)
(* downloadDrugWebId (src/postProcessing/drugsComMatching.py)              *)
(***************************************************************************)
MaxDrugs == 3

\* Lower-cased names of DrugId2NameC5.txt (loadDrugList).
ListNames == {"a", "b", "c"}

\* getTextURL(urlx): a response text, or the request raises.
FetchOutcomes == {"r1", "r2", "raises"}

\* utils.load_obj(RAW_DRUG_TEXT), dict() when it fails (lines 69-72): names
\* of the list and names of other lists fetched by earlier runs.
StoredRaw ==
    {[k \in ks |-> "old"] :
        ks \in {Fillers(n) \cup have :
                  n \in {0, SaveEvery - 2, SaveEvery - 1}, have \in SUBSET ListNames}}

\* Mutant of AlreadyFetched: the membership test is missing.
AlreadyFetchedNever(d, drug) == FALSE

\* `if drug in dDrugName2Re: continue` (lines 75-76)
AlreadyFetched(d, drug) == drug \in DOMAIN d

\* The final utils.save_obj(dDrugName2Re, RAW_DRUG_TEXT) (line 86).
FinalSave(file, d) == d

DlIdle ==
    /\ drugList = <<>>
    /\ dl_prior = <<>>
    /\ dDrugName2Re = <<>>
    /\ rawDrugText = <<>>
    /\ dl_i = 0
    /\ fetched = <<>>
    /\ dl_pc = "idle"

DlInit ==
    /\ drugList \in SeqsUpTo(ListNames, MaxDrugs)
    /\ dl_prior \in StoredRaw
    /\ dDrugName2Re = dl_prior
    /\ rawDrugText = dl_prior
    /\ dl_i = 1
    /\ fetched = <<>>
    /\ dl_pc = "loop"

\* One iteration of the loop over drugList (lines 74-84).
DownloadDrug ==
    /\ dl_pc = "loop"
    /\ dl_i <= Len(drugList)
    /\ LET drug == drugList[dl_i]
       IN IF AlreadyFetched(dDrugName2Re, drug)
          THEN /\ dl_i' = dl_i + 1
               /\ UNCHANGED <<dDrugName2Re, rawDrugText, fetched, dl_pc>>
          ELSE \E outcome \in FetchOutcomes :
                  /\ fetched' = Append(fetched, drug)
                  /\ IF outcome = "raises"
                     THEN \* no handler: the exception leaves the function
                          /\ dl_pc' = "raised"
                          /\ UNCHANGED <<dDrugName2Re, rawDrugText, dl_i>>
                     ELSE /\ dDrugName2Re' = Record(dDrugName2Re, drug, outcome)
                          /\ rawDrugText' =
                                PeriodicSave(rawDrugText, Record(dDrugName2Re, drug, outcome))
                          /\ dl_i' = dl_i + 1
                          /\ UNCHANGED dl_pc
    /\ UNCHANGED <<drugList, dl_prior>>
    /\ UNCHANGED <<tsVars, giVars, pxVars, hcVars>>

\* After the loop (line 86).
DownloadSave ==
    /\ dl_pc = "loop"
    /\ dl_i > Len(drugList)
    /\ rawDrugText' = FinalSave(rawDrugText, dDrugName2Re)
    /\ dl_pc' = "done"
    /\ UNCHANGED <<drugList, dl_prior, dDrugName2Re, dl_i, fetched>>
    /\ UNCHANGED <<tsVars, giVars, pxVars, hcVars>>

(***************************************************************************)
(* parsex (src/postProcessing/drugsComMatching.py)                         *)
(* Texts that the code indexes and slices are sequences of one-character   *)
(* strings.                                                                *)
(***************************************************************************)
MaxEntries == 2

\* Position (from 1) of the first ch in txt, 0 when there is none
\* (str.index raises ValueError then).
RECURSIVE IndexOf(_, _)
IndexOf(txt, ch) ==
    IF Len(txt) = 0 THEN 0
    ELSE IF txt[1] = ch THEN 1
    ELSE LET r == IndexOf(Tail(txt), ch) IN IF r = 0 THEN 0 ELSE r + 1

\* txt.split(sep): at least one part.
RECURSIVE Split(_, _)
Split(txt, sep) ==
    LET p == IndexOf(txt, sep)
    IN IF p = 0 THEN <<txt>>
       ELSE <<SubSeq(txt, 1, p - 1)>> \o Split(SubSeq(txt, p + 1, Len(txt)), sep)

\* part.strip()
RECURSIVE Strip(_)
Strip(txt) ==
    IF Len(txt) > 0 /\ txt[1] = " " THEN Strip(Tail(txt))
    ELSE IF Len(txt) > 0 /\ txt[Len(txt)] = " " THEN Strip(SubSeq(txt, 1, Len(txt) - 1))
    ELSE txt

\* part[1:-1]
Inner(txt) == SubSeq(txt, 2, Len(txt) - 1)

\* The characters as one string.
Str(txt) == Join(txt, "")

\* "%s" % value of a JSON value: null prints as None.
PyStr(v) == IF v = "null" THEN "None" ELSE v

\* The value of rex and whether the try block raised.
Parsed(rex, raised) == [rex |-> rex, raised |-> raised]

\* Lines 107-117: the JSON answer.
ParseJson(v) ==
    IF ~v.wellformed THEN Parsed(<<>>, TRUE)                       \* json.loads
    ELSE IF Len(v.categories) = 0 THEN Parsed(<<>>, TRUE)          \* info1[0]
    ELSE IF Len(v.categories[1].results) = 0 THEN Parsed(<<>>, TRUE)   \* ["results"][0]
    ELSE LET info1 == v.categories[1].results[1]
         IN IF "ddc_id" \notin DOMAIN info1 THEN Parsed(<<>>, TRUE)
            ELSE IF "brand_name_id" \notin DOMAIN info1 THEN Parsed(<<>>, TRUE)
            ELSE Parsed(<<PyStr(info1["ddc_id"]), PyStr(info1["brand_name_id"])>>, FALSE)

\* Lines 122-133: the HTML answer.
ParseHtml(v) ==
    IF Len(v.anchors) = 0 THEN Parsed(<<>>, TRUE)                  \* find() is None
    ELSE LET c == v.anchors[1]
         IN IF "onclick" \notin DOMAIN c THEN Parsed(<<>>, TRUE)   \* c['onclick']
            ELSE LET txt == c["onclick"]
                     i1 == IndexOf(txt, "(")
                     i2 == IndexOf(txt, ")")
                 IN IF i1 = 0 \/ i2 = 0 THEN Parsed(<<>>, TRUE)    \* txt.index
                    ELSE LET re == SubSeq(txt, i1 + 1, i2 - 1)
                             parts == Split(re, ",")
                         IN Parsed([j \in 1..Len(parts) |-> Str(Inner(Strip(parts[j])))],
                                   FALSE)

\* The try block of lines 105-137 for one raw response.
ParseResponse(v) == IF v.kind = "json" THEN ParseJson(v) ELSE ParseHtml(v)

\* Mutant of HasIds: `len(rex) > 1`.
HasIdsTwo(rex) == Len(rex) > 1

\* `if len(rex) > 0` (line 138)
HasIds(rex) == Len(rex) > 0

\* "%s||%s\n" % (k, ",".join(rex)) (line 139)
IdLine(k, rex) == k \o "||" \o Join(rex, ",") \o "\n"

\* `except: pass` (lines 136-137): where the loop is after the try block.
AfterTry(raised) == "loop"

\* Raw responses: JSON answers ...
JsonResult(ddc, brand) == ("ddc_id" :> ddc) @@ ("brand_name_id" :> brand)
JsonDoc(wf, cats) == [kind |-> "json", wellformed |-> wf, categories |-> cats]
JsonResponses ==
    { JsonDoc(TRUE, << [results |-> <<JsonResult("11", "22")>>] >>),
      JsonDoc(TRUE, << [results |-> <<JsonResult("11", "null")>>] >>),
      JsonDoc(TRUE, << [results |-> <<("ddc_id" :> "11")>>] >>),
      JsonDoc(TRUE, << [results |-> <<("brand_name_id" :> "22")>>] >>),
      JsonDoc(TRUE, << [results |-> <<>>] >>),
      JsonDoc(TRUE, <<>>),
      JsonDoc(FALSE, <<>>) }

\* ... and HTML answers, by the onclick text of the first a.ls-item.
HtmlDoc(as) == [kind |-> "html", anchors |-> as]
OnclickTexts ==
    { <<"f", "(", "'", "7", "'", ",", "'", "8", "'", ")">>,
      <<"f", "(", " ", "'", "7", "'", " ", ")">>,
      <<"f", "(", ")">>,
      <<")", "(">>,
      <<"f", "(">>,
      <<"f", ")">>,
      <<>> }
HtmlResponses ==
    {HtmlDoc(<<>>), HtmlDoc(<< <<>> >>)} \cup {HtmlDoc(<<("onclick" :> t)>>) : t \in OnclickTexts}

Responses == JsonResponses \cup HtmlResponses

\* The key of the i-th entry of the loaded dict.
EntryKey(i) == "d" \o ToString(i)

PxIdle ==
    /\ px_d = <<>>
    /\ px_i = 0
    /\ px_log = <<>>
    /\ px_fout = ""
    /\ px_pc = "idle"

PxInit ==
    /\ px_d \in SeqsUpTo(Responses, MaxEntries)
    /\ px_i = 1
    /\ px_log = <<>>
    /\ px_fout = ""
    /\ px_pc = "loop"

\* One iteration of the loop over d.items() (lines 102-139).
ParsexEntry ==
    /\ px_pc = "loop"
    /\ px_i <= Len(px_d)
    /\ LET r == ParseResponse(px_d[px_i])
       IN /\ px_log' = Append(px_log, r)
          /\ px_pc' = AfterTry(r.raised)
          /\ IF AfterTry(r.raised) = "loop"
             THEN /\ px_fout' = IF HasIds(r.rex)
                                THEN px_fout \o IdLine(EntryKey(px_i), r.rex)
                                ELSE px_fout
                  /\ px_i' = px_i + 1
             ELSE UNCHANGED <<px_fout, px_i>>
    /\ UNCHANGED px_d
    /\ UNCHANGED <<tsVars, giVars, dlVars, hcVars>>

\* fout.close() (line 140)
ParsexClose ==
    /\ px_pc = "loop"
    /\ px_i > Len(px_d)
    /\ px_pc' = "done"
    /\ UNCHANGED <<px_d, px_i, px_log, px_fout>>
    /\ UNCHANGED <<tsVars, giVars, dlVars, hcVars>>

(***************************************************************************)
(* HyperConv (src/models/hyperconv.py)                                     *)
(* in_channels = out_channels = 1: an input row is <<a>> (<<a, b>> with    *)
(* concat, where the transforms take 2 * in_channels columns); a row of    *)
(* x_out is <<v>>.  A row of the aggregate is the exact mean, a fraction   *)
(* <<numerator, denominator>> in lowest terms (floating-point rounding is  *)
(* not modelled).                                                          *)
(***************************************************************************)
MaxEdges == 2
MaxEdgesUpdate == 1

\* n_type=5 (line 27)
n_type == 5

Nodes == {0, 1}

\* Edge types handed to forward: 0..n_type-1, and one value outside.
EdgeTypeValues == 0..n_type

\* What torch.empty may hold in a row that is never written.
GarbageRows == {<<-7>>, <<4>>}

RECURSIVE Gcd(_, _)
Gcd(a, b) == IF b = 0 THEN a ELSE Gcd(b, a % b)

Abs(a) == IF a < 0 THEN -a ELSE a

\* n/d in lowest terms, d > 0.
Frac(n, d) ==
    LET g == Gcd(Abs(n), Abs(d))
        s == IF d < 0 THEN -1 ELSE 1
    IN <<s * (n \div g), s * (d \div g)>>

\* The input feature matrix x: the row of node n.
XRow(n, cat) == IF cat THEN <<n + 1, 3 - 2 * n>> ELSE <<n + 1>>

\* transforms[i]: torch.nn.Linear(in_channels, out_channels, bias=True) (line 51),
\* weight row and bias of transform i.
TransformWeight(i) == <<i + 2, i + 1>>
TransformBias(i) == i - 2

\* transforms[i](row)
RECURSIVE Dot(_, _)
Dot(w, row) == IF Len(row) = 0 THEN 0 ELSE w[1] * row[1] + Dot(Tail(w), Tail(row))

transforms(i, row) == Dot(TransformWeight(i), row) + TransformBias(i)

\* self.weight and self.bias of the last linear layer (lines 53-56).
weight == 3
LastBias == 1

\* source_ids = edge_index[0, :] (line 145); edge_index[1, :] (line 169)
SourceOf(ei, e) == ei[1][e]
TargetOf(ei, e) == ei[2][e]

\* Mutant of IdsOfType: `edge_types <= i` for `edge_types == i`.
IdsOfTypeUpTo(types, i) == {e \in 1..Len(types) : types[e] <= i}

\* ids = torch.nonzero(edge_types == i) (line 147)
IdsOfType(types, i) == {e \in 1..Len(types) : types[e] = i}

\* Mutant of CollectRow: the features of the target node are transformed.
CollectRowFromTarget(i, ei, e, cat) == <<transforms(i, XRow(TargetOf(ei, e), cat))>>

\* x_ids = x[source_ids[ids]]; x_out_v = self.transforms[i](x_ids) (lines 148-149),
\* the row computed for edge e.
CollectRow(i, ei, e, cat) == <<transforms(i, XRow(SourceOf(ei, e), cat))>>

\* message(x_j) (lines 95-104)
message(x_j) == x_j

RECURSIVE SumRows(_, _)
SumRows(rows, es) ==
    IF es = {} THEN 0
    ELSE LET e == CHOOSE k \in es : TRUE IN rows[e][1] + SumRows(rows, es \ {e})

RECURSIVE MaxOf(_)
MaxOf(S) ==
    LET a == CHOOSE k \in S : TRUE
    IN IF S = {a} THEN a ELSE LET m == MaxOf(S \ {a}) IN IF a > m THEN a ELSE m

\* aggregate(inputs, index) with aggr='mean' (lines 41, 169): one row per
\* index 0..max(index), the mean of the inputs scattered to it, 0 where none.
aggregate(inputs, index) ==
    [v \in 0..MaxOf({index[e] : e \in 1..Len(index)}) |->
        LET es == {e \in 1..Len(index) : index[e] = v}
        IN IF es = {} THEN Frac(0, 1) ELSE Frac(SumRows(inputs, es), Cardinality(es))]

\* F.normalize(aggr_out, p=2, dim=-1) of a one-column row: v / max(|v|, eps).
Normalize(f) == IF f[1] > 0 THEN Frac(1, 1) ELSE IF f[1] < 0 THEN Frac(-1, 1) ELSE Frac(0, 1)

\* The rows of update() after line 117: matmul with self.weight, bias, normalize.
LastLayerRow(f, b, norm) ==
    LET m == Frac(f[1] * weight, f[2])
        a == IF b THEN Frac(m[1] + LastBias * m[2], m[2]) ELSE m
    IN IF norm THEN Normalize(a) ELSE a

\* Lines 119-122 with concat: torch.cat([x, aggr_out]) has 2 * in_channels +
\* out_channels columns and self.weight 2 * in_channels rows, so the matmul
\* raises.
UpdateRaises(skip, cat) == ~skip /\ cat

\* Mutant of update: the early return for skip_last_weight is missing.
updateWithoutSkip(aggr, skip, cat, b, norm) ==
    [v \in DOMAIN aggr |-> LastLayerRow(aggr[v], b, norm)]

\* update(aggr_out, x) (lines 106-130), when it returns.
update(aggr, skip, cat, b, norm) ==
    IF skip THEN aggr
    ELSE [v \in DOMAIN aggr |-> LastLayerRow(aggr[v], b, norm)]

\* x_out = torch.empty(...) (line 144): a row that holds no value yet.
Empty == <<>>

EdgeIndexes(n) == UNION {[1..k -> Nodes] \X [1..k -> Nodes] : k \in 1..n}

HcIdle ==
    /\ edge_index = <<>>
    /\ edge_types = <<>>
    /\ skip_last_weight = TRUE
    /\ concat = FALSE
    /\ bias = TRUE
    /\ normalize = FALSE
    /\ x_out = <<>>
    /\ hc_i = 0
    /\ hc_writes = <<>>
    /\ hc_msg = <<>>
    /\ aggr_out = <<>>
    /\ hc_out = <<>>
    /\ hc_pc = "idle"

\* forward(x, edge_index, edge_types) is called on a layer built with the flags.
HcStart(maxEdges) ==
    /\ edge_index \in EdgeIndexes(maxEdges)
    /\ edge_types \in [1..Len(edge_index[1]) -> EdgeTypeValues]
    /\ x_out = [e \in 1..Len(edge_types) |-> Empty]
    /\ hc_i = 0
    /\ hc_writes = [e \in 1..Len(edge_types) |-> <<>>]
    /\ hc_msg = <<>>
    /\ aggr_out = <<>>
    /\ hc_out = <<>>
    /\ hc_pc = "collect"

\* The default flags but for skip_last_weight and concat.
HcInit ==
    /\ skip_last_weight \in BOOLEAN
    /\ concat \in BOOLEAN
    /\ bias = TRUE
    /\ normalize = FALSE
    /\ HcStart(MaxEdges)

\* Every setting of the flags.
HcInitFlags ==
    /\ skip_last_weight \in BOOLEAN
    /\ concat \in BOOLEAN
    /\ bias \in BOOLEAN
    /\ normalize \in BOOLEAN
    /\ HcStart(MaxEdgesUpdate)

\* One iteration of `for i in range(self.n_type)` in __collect__ (lines 146-150).
CollectType ==
    /\ hc_pc = "collect"
    /\ hc_i < n_type
    /\ LET ids == IdsOfType(edge_types, hc_i)
       IN /\ x_out' = [e \in DOMAIN x_out |->
                          IF e \in ids THEN CollectRow(hc_i, edge_index, e, concat)
                          ELSE x_out[e]]
          /\ hc_writes' = [e \in DOMAIN hc_writes |->
                          IF e \in ids THEN Append(hc_writes[e], hc_i) ELSE hc_writes[e]]
    /\ hc_i' = hc_i + 1
    /\ UNCHANGED <<edge_index, edge_types, skip_last_weight, concat, bias, normalize,
                   hc_msg, aggr_out, hc_out, hc_pc>>
    /\ UNCHANGED <<tsVars, giVars, dlVars, pxVars>>

\* `return x_out` (line 151): a row never written holds whatever the
\* allocation held.
CollectReturn ==
    /\ hc_pc = "collect"
    /\ hc_i = n_type
    /\ \E g \in [{e \in DOMAIN x_out : x_out[e] = Empty} -> GarbageRows] :
          x_out' = [e \in DOMAIN x_out |-> IF x_out[e] = Empty THEN g[e] ELSE x_out[e]]
    /\ hc_pc' = "message"
    /\ UNCHANGED <<edge_index, edge_types, skip_last_weight, concat, bias, normalize,
                   hc_i, hc_writes, hc_msg, aggr_out, hc_out>>
    /\ UNCHANGED <<tsVars, giVars, dlVars, pxVars>>

\* out = self.message(x_out); out = self.aggregate(out, edge_index[1, :])
\* (lines 168-169)
MessageAggregate ==
    /\ hc_pc = "message"
    /\ hc_msg' = [e \in DOMAIN x_out |-> message(x_out[e])]
    /\ aggr_out' = aggregate([e \in DOMAIN x_out |-> message(x_out[e])],
                             [e \in DOMAIN x_out |-> TargetOf(edge_index, e)])
    /\ hc_pc' = "update"
    /\ UNCHANGED <<edge_index, edge_types, skip_last_weight, concat, bias, normalize,
                   x_out, hc_i, hc_writes, hc_out>>
    /\ UNCHANGED <<tsVars, giVars, dlVars, pxVars>>

\* out = self.update(out, x); return out (lines 170-172)
Update ==
    /\ hc_pc = "update"
    /\ IF UpdateRaises(skip_last_weight, concat)
       THEN hc_pc' = "error" /\ UNCHANGED hc_out
       ELSE /\ hc_out' = update(aggr_out, skip_last_weight, concat, bias, normalize)
            /\ hc_pc' = "done"
    /\ UNCHANGED <<edge_index, edge_types, skip_last_weight, concat, bias, normalize,
                   x_out, hc_i, hc_writes, hc_msg, aggr_out>>
    /\ UNCHANGED <<tsVars, giVars, dlVars, pxVars>>

(***************************************************************************)
(* Specifications                                                          *)
(***************************************************************************)
InitTsui == TsuiInit /\ GiIdle /\ DlIdle /\ PxIdle /\ HcIdle
NextTsui == ExportReadLine \/ ExportWriteLast
SpecTsui == InitTsui /\ [][NextTsui]_vars

InitInteractions == GiInit /\ TsuiIdle /\ DlIdle /\ PxIdle /\ HcIdle
NextInteractions == GetInteractionsLine \/ GetInteractionsSave
SpecInteractions == InitInteractions /\ [][NextInteractions]_vars

InitDownload == DlInit /\ TsuiIdle /\ GiIdle /\ PxIdle /\ HcIdle
NextDownload == DownloadDrug \/ DownloadSave
SpecDownload == InitDownload /\ [][NextDownload]_vars

InitParsex == PxInit /\ TsuiIdle /\ GiIdle /\ DlIdle /\ HcIdle
NextParsex == ParsexEntry \/ ParsexClose
SpecParsex == InitParsex /\ [][NextParsex]_vars

InitHyperConv == HcInit /\ TsuiIdle /\ GiIdle /\ DlIdle /\ PxIdle
NextHyperConv == CollectType \/ CollectReturn \/ MessageAggregate \/ Update
SpecHyperConv == InitHyperConv /\ [][NextHyperConv]_vars

InitUpdate == HcInitFlags /\ TsuiIdle /\ GiIdle /\ DlIdle /\ PxIdle
SpecUpdate == InitUpdate /\ [][NextHyperConv]_vars

(***************************************************************************)
(* C1, C2, C3                                                              *)
(***************************************************************************)
EdgeIds == 1..Len(edge_types)

TypesInRange == \A e \in EdgeIds : edge_types[e] \in 0..(n_type - 1)

\* The edges whose destination edge_index[1, e] is v.
EdgesInto(v) == {e \in EdgeIds : edge_index[2][e] = v}

\* transforms[edge_types[e]] applied to the features of the source node of e.
TransformedSource(e) == transforms(edge_types[e], XRow(edge_index[1][e], concat))

RECURSIVE SumTransformed(_)
SumTransformed(es) ==
    IF es = {} THEN 0
    ELSE LET e == CHOOSE k \in es : TRUE
         IN TransformedSource(e) + SumTransformed(es \ {e})

\* C1: with skip_last_weight and every edge type in 0..n_type-1, forward
\* returns, and its row for every node v with an incoming edge is the mean,
\* over the edges into v, of the edge type's transform of the source node's
\* features.
C1_ForwardIsMeanOfTransformedSources ==
    (skip_last_weight /\ TypesInRange) =>
        /\ hc_pc # "error"
        /\ hc_pc = "done" =>
              \A v \in Nodes :
                 EdgesInto(v) # {} =>
                    /\ v \in DOMAIN hc_out
                    /\ hc_out[v] = Frac(SumTransformed(EdgesInto(v)), Cardinality(EdgesInto(v)))

\* forward returned a mean that is no integer, of two edges of different types
\* from different sources.
C1_Witness ==
    /\ hc_pc = "done" /\ skip_last_weight /\ TypesInRange
    /\ \E v \in Nodes : \E e1, e2 \in EdgesInto(v) :
          /\ edge_types[e1] # edge_types[e2]
          /\ edge_index[1][e1] # edge_index[1][e2]
          /\ hc_out[v][2] = 2

\* C2: with every edge type in 0..n_type-1, no row of x_out is ever assigned
\* twice, and when __collect__ returns every row has been assigned exactly
\* once, by the transform of the edge's type applied to the features of the
\* edge's source node.
C2_CollectPartitionsEdges ==
    TypesInRange =>
        /\ \A e \in EdgeIds : Len(hc_writes[e]) <= 1
        /\ hc_pc \in {"message", "update", "done", "error"} =>
              \A e \in EdgeIds :
                 /\ hc_writes[e] = <<edge_types[e]>>
                 /\ x_out[e] = <<TransformedSource(e)>>

\* __collect__ returned for two edges of different types.
C2_Witness ==
    /\ hc_pc = "message" /\ TypesInRange
    /\ \E e1, e2 \in EdgeIds : edge_types[e1] # edge_types[e2]

\* C3: with skip_last_weight, update returns (it does not raise) and what it
\* returns is aggr_out, whatever concat, bias and normalize are; message
\* returns the rows it was given.
C3_UpdateAndMessageAreIdentity ==
    /\ skip_last_weight => hc_pc # "error"
    /\ (hc_pc = "done" /\ skip_last_weight) => hc_out = aggr_out
    /\ hc_pc \in {"update", "done", "error"} => hc_msg = x_out

\* update returned with concat and normalize set and no bias, for an aggregate
\* that normalization would have changed.
C3_Witness ==
    /\ hc_pc = "done" /\ skip_last_weight /\ concat /\ normalize /\ ~bias
    /\ \E v \in DOMAIN hc_out : hc_out[v][1] > 1

(***************************************************************************)
(* C4                                                                      *)
(***************************************************************************)
\* A step in which the prediction line raised.
GiRaisedStep ==
    /\ Len(gi_log') = Len(gi_log) + 1
    /\ gi_log'[Len(gi_log')] = "raised"

\* C4: a failure while processing one prediction line is swallowed: the step
\* records no response and the loop goes on with the next line; at the end
\* every prediction line has been processed and the accumulated responses
\* have been saved to pOut, once, after the last line.
C4_FailureSwallowed ==
    /\ [][GiRaisedStep => /\ dDrugPairToRe' = dDrugPairToRe
                          /\ gi_i' = gi_i + 1
                          /\ gi_pc' = "loop"]_vars
    /\ [](gi_pc = "done" => /\ Len(gi_log) = Len(predictions)
                            /\ pOut = dDrugPairToRe
                            /\ gi_finalSaves = 1)

\* A line raised, a later line was fetched and recorded, and the run ended.
C4_Witness ==
    /\ gi_pc = "done"
    /\ \E i, j \in 1..Len(gi_log) :
          i < j /\ gi_log[i] = "raised" /\ gi_log[j] = "recorded"

(***************************************************************************)
(* C5                                                                      *)
(***************************************************************************)
Range(f) == {f[x] : x \in DOMAIN f}

\* C5: a name of the previously saved mapping is never requested again and
\* keeps its stored response, in memory and in the file; when the function
\* returns, the saved mapping has an entry for every name of the drug list.
C5_ResumableComplete ==
    /\ \A n \in DOMAIN dl_prior :
          /\ n \notin Range(fetched)
          /\ n \in DOMAIN dDrugName2Re /\ dDrugName2Re[n] = dl_prior[n]
          /\ n \in DOMAIN rawDrugText /\ rawDrugText[n] = dl_prior[n]
    /\ dl_pc = "done" => \A i \in 1..Len(drugList) : drugList[i] \in DOMAIN rawDrugText

\* The function returned after skipping a stored name and fetching a new one.
C5_Witness ==
    /\ dl_pc = "done"
    /\ \E i \in 1..Len(drugList) : drugList[i] \in DOMAIN dl_prior
    /\ Len(fetched) > 0

(***************************************************************************)
(* C6                                                                      *)
(***************************************************************************)
\* The lines the claim describes for the first n entries, given the ids
\* extracted from each.
RECURSIVE IdLines(_)
IdLines(n) ==
    IF n = 0 THEN ""
    ELSE IdLines(n - 1) \o (IF Len(px_log[n].rex) >= 1
                            THEN EntryKey(n) \o "||" \o Join(px_log[n].rex, ",") \o "\n"
                            ELSE "")

\* C6: the output holds, for each entry processed, one line name||ids when at
\* least one id was extracted and nothing otherwise; no exception of the try
\* block leaves the loop, and at the end every entry has been processed.
C6_OneLinePerParsedEntry ==
    /\ px_fout = IdLines(Len(px_log))
    /\ px_pc # "raised"
    /\ px_pc = "done" => Len(px_log) = Len(px_d)

\* An entry raised while parsing and a later entry got its line.
C6_Witness ==
    /\ px_pc = "done"
    /\ Len(px_log) = 2
    /\ px_log[1].raised
    /\ px_fout \in {"d2||7,8\n", "d2||11,22\n"}

(***************************************************************************)
(* C7                                                                      *)
(***************************************************************************)
\* The maximal runs of consecutive lines with the same drug pair, in order.
RECURSIVE RunsOf(_)
RunsOf(ls) ==
    IF Len(ls) = 0 THEN <<>>
    ELSE LET rest == RunsOf(Tail(ls))
         IN IF Len(rest) > 0 /\ rest[1][1][1] = ls[1][1] /\ rest[1][1][2] = ls[1][2]
            THEN <<(<<ls[1]>> \o rest[1])>> \o Tail(rest)
            ELSE <<(<<ls[1]>>)>> \o rest

\* The line the claim describes for one run.
RunLine(run) ==
    run[1][1] \o "|" \o run[1][2] \o "|" \o CodeOf(run[1][1]) \o "|" \o CodeOf(run[1][2])
      \o "|" \o Join([i \in 1..Len(run) |-> run[i][3]], ",") \o "\n"

RECURSIVE RunLines(_)
RunLines(runs) == IF Len(runs) = 0 THEN "" ELSE RunLine(runs[1]) \o RunLines(Tail(runs))

AllCodesKnown == \A i \in 1..Len(tsui) : {tsui[i][1], tsui[i][2]} \subseteq DOMAIN dname2code

\* C7: when export_tsui has finished (every drug of the input having a code),
\* the output holds exactly one line per maximal run of consecutive data lines
\* with the same drug pair: that pair's names and codes and the run's side
\* effects in input order.
C7_OneLinePerRun ==
    (ts_pc = "done" /\ AllCodesKnown) => fout = RunLines(RunsOf(tsui))

=============================================================================
